---- MODULE Spec2Model ----
(***************************************************************************)
(* Model of the zohoxide-crm client (src/src/client.rs): the session held  *)
(* by `Client`, the token refresh `get_new_token`, and the four CRM        *)
(* operations `get`, `get_many`, `insert` and `update_many`.               *)
(*                                                                         *)
(* Every operation is synchronous and blocking and takes `&mut self`, so   *)
(* one call is one atomic step.  The HTTP transport and the remote servers *)
(* are the environment: each step draws the transport outcome of the       *)
(* refresh request and of the CRM request from small sets.                 *)
(***************************************************************************)
EXTENDS Integers, Sequences, FiniteSets, TLC

(***************************************************************************)
(* Rust values.                                                            *)
(***************************************************************************)
\* Option<T>
None == [none |-> TRUE]
Some(v) == [some |-> v]
is_some(o) == "some" \in DOMAIN o
is_none(o) == ~is_some(o)
\* Option::unwrap on a value known to be Some
unwrap(o) == o.some

\* Result<T, E>, and the third way out of a call: a panic (unwrap on None)
Ok(v) == [ok |-> v]
Err(e) == [err |-> e]
Panic(msg) == [panic |-> msg]
is_ok(r) == "ok" \in DOMAIN r
is_err(r) == "err" \in DOMAIN r
is_panic(r) == "panic" \in DOMAIN r

\* enum ClientError
General(msg) == [General |-> msg]
UnexpectedResponseType(raw) == [UnexpectedResponseType |-> raw]
EmptyResponse == [EmptyResponse |-> TRUE]
ApiError(response) == [ApiError |-> response]

\* impl From<&str> for ClientError
ClientErrorFromStr(err) == General(err)
\* impl From<serde_json::Error> for ClientError
ClientErrorFromSerde(err) == General(err)
\* impl From<reqwest::Error> for ClientError
ClientErrorFromReqwest(err) == General(err)

(***************************************************************************)
(* Program constants.                                                      *)
(***************************************************************************)
DEFAULT_TIMEOUT == 30
DEFAULT_OAUTH_DOMAIN == "https://accounts.zoho.com"
DEFAULT_API_DOMAIN == "https://www.zohoapis.com"
SANDBOX_API_DOMAIN == "https://crmsandbox.zoho.com"

(***************************************************************************)
(* JSON values, as serde_json reads them from a raw body.  The kinds of    *)
(* value are told apart by the one field name they carry.                  *)
(***************************************************************************)
JStr(s) == [str |-> s]
JNum(n) == [num |-> n]
JBool(b) == [bool |-> b]
JNull == [null |-> TRUE]
JArr(seq) == [arr |-> seq]
JObj(fields) == [obj |-> fields]
\* the raw text is not JSON at all
JInvalid(msg) == [invalid |-> msg]

IsStr(j) == "str" \in DOMAIN j
IsNum(j) == "num" \in DOMAIN j
IsBool(j) == "bool" \in DOMAIN j
IsNull(j) == "null" \in DOMAIN j
IsArr(j) == "arr" \in DOMAIN j
IsObj(j) == "obj" \in DOMAIN j

\* field f of object j is present
Has(j, f) == f \in DOMAIN j.obj
\* a required String field
ReqStr(j, f) == Has(j, f) /\ IsStr(j.obj[f])
\* an Option<String> field: missing, null or a string
OptStr(j, f) == Has(j, f) => (IsStr(j.obj[f]) \/ IsNull(j.obj[f]))
OptNum(j, f) == Has(j, f) => (IsNum(j.obj[f]) \/ IsNull(j.obj[f]))
GetOptStr(j, f) == IF Has(j, f) /\ IsStr(j.obj[f]) THEN Some(j.obj[f].str) ELSE None
GetOptNum(j, f) == IF Has(j, f) /\ IsNum(j.obj[f]) THEN Some(j.obj[f].num) ELSE None

(***************************************************************************)
(* Raw response bodies the servers may send.  The texts are those of the   *)
(* repository's tests and of the wire formats, with variations.            *)
(***************************************************************************)
\* bodies of the OAuth endpoint
TOKEN_FULL == "{\"access_token\":\"TKN\",\"api_domain\":\"https://X\",\"token_type\":\"Bearer\",\"expires_in\":3600,\"expires_in_sec\":3600}"
TOKEN_FULL_2 == "{\"access_token\":\"TKN2\",\"api_domain\":\"https://Y\",\"token_type\":\"Bearer\",\"expires_in\":3600,\"expires_in_sec\":3600}"
TOKEN_NO_DOMAIN == "{\"access_token\":\"TKN\",\"token_type\":\"Bearer\",\"expires_in\":3600,\"expires_in_sec\":3600}"
TOKEN_ABSENT == "{\"api_domain\":\"https://X\",\"token_type\":\"Bearer\",\"expires_in\":3600,\"expires_in_sec\":3600}"
TOKEN_NULL == "{\"access_token\":null,\"api_domain\":null,\"token_type\":\"Bearer\",\"expires_in\":3600,\"expires_in_sec\":3600}"
TOKEN_BAD_TYPE == "{\"access_token\":5,\"token_type\":\"Bearer\",\"expires_in\":3600,\"expires_in_sec\":3600}"
AUTH_ERROR == "{\"error\":\"invalid_token\"}"
AUTH_ERROR_WITH_TOKEN == "{\"error\":\"invalid_code\",\"access_token\":\"TKN\",\"api_domain\":\"https://X\",\"token_type\":\"Bearer\",\"expires_in\":3600,\"expires_in_sec\":3600}"
AUTH_ERROR_NO_TOKEN == "{\"error\":\"invalid_code\",\"token_type\":\"Bearer\",\"expires_in\":3600,\"expires_in_sec\":3600}"
\* bodies of either endpoint
TEXT_BODY == "invalid_client"
EMPTY_BODY == ""
EMPTY_OBJECT == "{}"
\* bodies of the CRM endpoint
GET_SUCCESS == "{\"data\":[{\"id\":\"40000000123456789\"}],\"info\":{\"more_records\":true,\"per_page\":1,\"count\":1,\"page\":1}}"
GET_SUCCESS_NO_INFO == "{\"data\":[{\"id\":\"40000000123456789\"}]}"
API_ERROR == "{\"code\":\"INVALID_URL_PATTERN\",\"details\":{},\"message\":\"Please check if the URL trying to access is a correct one\",\"status\":\"error\"}"
API_ERROR_TOKEN == "{\"code\":\"INVALID_TOKEN\",\"details\":{},\"message\":\"invalid oauth token\",\"status\":\"error\"}"
API_ERROR_NO_DETAILS == "{\"code\":\"INVALID_URL_PATTERN\",\"message\":\"Please check if the URL trying to access is a correct one\",\"status\":\"error\"}"
API_ERROR_WITH_RECORD == "{\"code\":\"INVALID_MODULE\",\"details\":{},\"message\":\"the module name given seems to be invalid\",\"status\":\"error\",\"data\":[{\"id\":\"40000000123456789\"}]}"
API_ERROR_WITH_BULK == "{\"code\":\"INVALID_MODULE\",\"details\":{},\"message\":\"the module name given seems to be invalid\",\"status\":\"error\",\"data\":[{\"code\":\"MANDATORY_NOT_FOUND\",\"details\":{\"api_name\":\"Last_Name\"},\"message\":\"required field not found\",\"status\":\"error\"}]}"
BULK_SUCCESS == "{\"data\":[{\"code\":\"SUCCESS\",\"details\":{\"Modified_Time\":\"2019-05-02T11:17:33+05:30\",\"Modified_By\":{\"name\":\"Patricia Boyle\",\"id\":\"554023000000235011\"},\"Created_Time\":\"2019-05-02T11:17:33+05:30\",\"id\":\"40000000123456789\",\"Created_By\":{\"name\":\"Patricia Boyle\",\"id\":\"554023000000235011\"}},\"message\":\"record added\",\"status\":\"success\"}]}"
BULK_ERROR == "{\"data\":[{\"code\":\"MANDATORY_NOT_FOUND\",\"details\":{\"api_name\":\"Last_Name\"},\"message\":\"required field not found\",\"status\":\"error\"}]}"
BULK_MIXED == "{\"data\":[{\"code\":\"SUCCESS\",\"details\":{\"Modified_Time\":\"2019-05-02T11:17:33+05:30\",\"Modified_By\":{\"name\":\"Patricia Boyle\",\"id\":\"554023000000235011\"},\"Created_Time\":\"2019-05-02T11:17:33+05:30\",\"id\":\"40000000123456789\",\"Created_By\":{\"name\":\"Patricia Boyle\",\"id\":\"554023000000235011\"}},\"message\":\"record added\",\"status\":\"success\"},{\"code\":\"MANDATORY_NOT_FOUND\",\"details\":{\"api_name\":\"Last_Name\"},\"message\":\"required field not found\",\"status\":\"error\"}]}"

RefreshBodies ==
    { TOKEN_FULL, TOKEN_FULL_2, TOKEN_NO_DOMAIN, TOKEN_ABSENT, TOKEN_NULL,
      TOKEN_BAD_TYPE, AUTH_ERROR, AUTH_ERROR_WITH_TOKEN, AUTH_ERROR_NO_TOKEN,
      TEXT_BODY, EMPTY_BODY, EMPTY_OBJECT }
CrmBodies ==
    { GET_SUCCESS, GET_SUCCESS_NO_INFO, API_ERROR, API_ERROR_TOKEN,
      API_ERROR_NO_DETAILS, API_ERROR_WITH_RECORD, API_ERROR_WITH_BULK,
      BULK_SUCCESS, BULK_ERROR, BULK_MIXED, TEXT_BODY, EMPTY_BODY, EMPTY_OBJECT }

(***************************************************************************)
(* serde_json::from_str, first half: the JSON value a raw text denotes.    *)
(***************************************************************************)
JTokenInfo == [token_type |-> JStr("Bearer"), expires_in |-> JNum(3600), expires_in_sec |-> JNum(3600)]
JUser == JObj([name |-> JStr("Patricia Boyle"), id |-> JStr("554023000000235011")])
JRecord == JObj([id |-> JStr("40000000123456789")])
JInfo == JObj([more_records |-> JBool(TRUE), per_page |-> JNum(1), count |-> JNum(1), page |-> JNum(1)])
JNoFields == [f \in {} |-> JNull]
JErrorFields(code, message) ==
    [code |-> JStr(code), details |-> JObj(JNoFields), message |-> JStr(message), status |-> JStr("error")]
JBulkSuccessItem ==
    JObj([code |-> JStr("SUCCESS"),
          details |-> JObj([Modified_Time |-> JStr("2019-05-02T11:17:33+05:30"),
                            Modified_By |-> JUser,
                            Created_Time |-> JStr("2019-05-02T11:17:33+05:30"),
                            id |-> JStr("40000000123456789"),
                            Created_By |-> JUser]),
          message |-> JStr("record added"),
          status |-> JStr("success")])
JBulkErrorItem ==
    JObj([code |-> JStr("MANDATORY_NOT_FOUND"),
          details |-> JObj([api_name |-> JStr("Last_Name")]),
          message |-> JStr("required field not found"),
          status |-> JStr("error")])

Json(raw) ==
    CASE raw = TOKEN_FULL ->
           JObj([access_token |-> JStr("TKN"), api_domain |-> JStr("https://X")] @@ JTokenInfo)
      [] raw = TOKEN_FULL_2 ->
           JObj([access_token |-> JStr("TKN2"), api_domain |-> JStr("https://Y")] @@ JTokenInfo)
      [] raw = TOKEN_NO_DOMAIN ->
           JObj([access_token |-> JStr("TKN")] @@ JTokenInfo)
      [] raw = TOKEN_ABSENT ->
           JObj([api_domain |-> JStr("https://X")] @@ JTokenInfo)
      [] raw = TOKEN_NULL ->
           JObj([access_token |-> JNull, api_domain |-> JNull] @@ JTokenInfo)
      [] raw = TOKEN_BAD_TYPE ->
           JObj([access_token |-> JNum(5)] @@ JTokenInfo)
      [] raw = AUTH_ERROR ->
           JObj([error |-> JStr("invalid_token")])
      [] raw = AUTH_ERROR_WITH_TOKEN ->
           JObj([error |-> JStr("invalid_code"), access_token |-> JStr("TKN"),
                 api_domain |-> JStr("https://X")] @@ JTokenInfo)
      [] raw = AUTH_ERROR_NO_TOKEN ->
           JObj([error |-> JStr("invalid_code")] @@ JTokenInfo)
      [] raw = TEXT_BODY -> JInvalid("expected value at line 1 column 1")
      [] raw = EMPTY_BODY -> JInvalid("EOF while parsing a value at line 1 column 0")
      [] raw = EMPTY_OBJECT -> JObj(JNoFields)
      [] raw = GET_SUCCESS -> JObj([data |-> JArr(<<JRecord>>), info |-> JInfo])
      [] raw = GET_SUCCESS_NO_INFO -> JObj([data |-> JArr(<<JRecord>>)])
      [] raw = API_ERROR ->
           JObj(JErrorFields("INVALID_URL_PATTERN", "Please check if the URL trying to access is a correct one"))
      [] raw = API_ERROR_TOKEN ->
           JObj(JErrorFields("INVALID_TOKEN", "invalid oauth token"))
      [] raw = API_ERROR_NO_DETAILS ->
           JObj([code |-> JStr("INVALID_URL_PATTERN"),
                 message |-> JStr("Please check if the URL trying to access is a correct one"),
                 status |-> JStr("error")])
      [] raw = API_ERROR_WITH_RECORD ->
           JObj(JErrorFields("INVALID_MODULE", "the module name given seems to be invalid")
                @@ [data |-> JArr(<<JRecord>>)])
      [] raw = API_ERROR_WITH_BULK ->
           JObj(JErrorFields("INVALID_MODULE", "the module name given seems to be invalid")
                @@ [data |-> JArr(<<JBulkErrorItem>>)])
      [] raw = BULK_SUCCESS -> JObj([data |-> JArr(<<JBulkSuccessItem>>)])
      [] raw = BULK_ERROR -> JObj([data |-> JArr(<<JBulkErrorItem>>)])
      [] raw = BULK_MIXED -> JObj([data |-> JArr(<<JBulkSuccessItem, JBulkErrorItem>>)])
      [] OTHER -> JInvalid("expected value at line 1 column 1")

(***************************************************************************)
(* serde_json::from_str, second half: the derived Deserialize of each      *)
(* response type (unknown fields are ignored, a missing or null            *)
(* Option field is None, a missing required field is an error).            *)
(***************************************************************************)
\* the error serde_json reports when value j is not an object of the shape
NotAnObject(j) == IF "invalid" \in DOMAIN j THEN j.invalid ELSE "invalid type: expected a struct"

\* response::AuthErrorResponse { error: String }
from_str_AuthErrorResponse(raw) ==
    LET j == Json(raw)
    IN  IF ~IsObj(j) THEN Err(NotAnObject(j))
        ELSE IF ~ReqStr(j, "error") THEN Err("missing field error")
        ELSE Ok([error |-> j.obj.error.str])

\* TokenRecord { access_token: Option<String>, api_domain: Option<String>,
\*               token_type, expires_in, expires_in_sec }
from_str_TokenRecord(raw) ==
    LET j == Json(raw)
    IN  IF ~IsObj(j) THEN Err(NotAnObject(j))
        ELSE IF ~OptStr(j, "access_token") THEN Err("invalid type: expected a string")
        ELSE IF ~OptStr(j, "api_domain") THEN Err("invalid type: expected a string")
        ELSE IF ~ReqStr(j, "token_type") THEN Err("missing field token_type")
        ELSE IF ~(Has(j, "expires_in") /\ IsNum(j.obj.expires_in)) THEN Err("missing field expires_in")
        ELSE IF ~(Has(j, "expires_in_sec") /\ IsNum(j.obj.expires_in_sec)) THEN Err("missing field expires_in_sec")
        ELSE Ok([access_token |-> GetOptStr(j, "access_token"),
                 api_domain |-> GetOptStr(j, "api_domain"),
                 token_type |-> j.obj.token_type.str,
                 expires_in |-> j.obj.expires_in.num,
                 expires_in_sec |-> j.obj.expires_in_sec.num])

\* response::ApiErrorResponse { code, message, status: String, details: map }
from_str_ApiErrorResponse(raw) ==
    LET j == Json(raw)
    IN  IF ~IsObj(j) THEN Err(NotAnObject(j))
        ELSE IF ~ReqStr(j, "code") THEN Err("missing field code")
        ELSE IF ~(Has(j, "details") /\ IsObj(j.obj.details)) THEN Err("missing field details")
        ELSE IF ~ReqStr(j, "message") THEN Err("missing field message")
        ELSE IF ~ReqStr(j, "status") THEN Err("missing field status")
        ELSE Ok([code |-> j.obj.code.str,
                 details |-> j.obj.details.obj,
                 message |-> j.obj.message.str,
                 status |-> j.obj.status.str])

\* the record type T of the caller of get and get_many; in the tests it is
\* ResponseRecord { id: String }
IsResponseRecord(j) == IsObj(j) /\ ReqStr(j, "id")
ToResponseRecord(j) == [id |-> j.obj.id.str]

\* the optional `info` of a get response: pagination metadata
IsInfo(j) ==
    /\ IsObj(j)
    /\ Has(j, "more_records") /\ IsBool(j.obj.more_records)
    /\ Has(j, "per_page") /\ IsNum(j.obj.per_page)
    /\ Has(j, "count") /\ IsNum(j.obj.count)
    /\ Has(j, "page") /\ IsNum(j.obj.page)
ToInfo(j) ==
    [more_records |-> j.obj.more_records.bool, per_page |-> j.obj.per_page.num,
     count |-> j.obj.count.num, page |-> j.obj.page.num]

\* response::ApiGetResponse<T> { data: Vec<T>, info? }
from_str_ApiGetResponse(raw) ==
    LET j == Json(raw)
    IN  IF ~IsObj(j) THEN Err(NotAnObject(j))
        ELSE IF ~(Has(j, "data") /\ IsArr(j.obj.data)) THEN Err("missing field data")
        ELSE IF \E i \in 1..Len(j.obj.data.arr) : ~IsResponseRecord(j.obj.data.arr[i])
             THEN Err("missing field id")
        ELSE IF Has(j, "info") /\ ~IsNull(j.obj.info) /\ ~IsInfo(j.obj.info)
             THEN Err("invalid type: info")
        ELSE Ok([data |-> [i \in 1..Len(j.obj.data.arr) |-> ToResponseRecord(j.obj.data.arr[i])],
                 info |-> IF Has(j, "info") /\ IsInfo(j.obj.info)
                          THEN Some(ToInfo(j.obj.info)) ELSE None])

\* response::ApiGetManyResponse<T> { data: Vec<T>, info? }
from_str_ApiGetManyResponse(raw) ==
    LET j == Json(raw)
    IN  IF ~IsObj(j) THEN Err(NotAnObject(j))
        ELSE IF ~(Has(j, "data") /\ IsArr(j.obj.data)) THEN Err("missing field data")
        ELSE IF \E i \in 1..Len(j.obj.data.arr) : ~IsResponseRecord(j.obj.data.arr[i])
             THEN Err("missing field id")
        ELSE IF Has(j, "info") /\ ~IsNull(j.obj.info) /\ ~IsInfo(j.obj.info)
             THEN Err("invalid type: info")
        ELSE Ok([data |-> [i \in 1..Len(j.obj.data.arr) |-> ToResponseRecord(j.obj.data.arr[i])],
                 info |-> IF Has(j, "info") /\ IsInfo(j.obj.info)
                          THEN Some(ToInfo(j.obj.info)) ELSE None])

\* response::ResponseDataItemDetails, an untagged union: the Success shape
\* (record id and audit metadata) is tried first, then the Error shape (a
\* free-form map)
IsOwner(j) == IsObj(j) /\ ReqStr(j, "name") /\ ReqStr(j, "id")
IsSuccessDetails(j) ==
    /\ IsObj(j)
    /\ ReqStr(j, "id")
    /\ ReqStr(j, "Modified_Time") /\ ReqStr(j, "Created_Time")
    /\ Has(j, "Modified_By") /\ IsOwner(j.obj.Modified_By)
    /\ Has(j, "Created_By") /\ IsOwner(j.obj.Created_By)
ToResponseDataItemDetails(j) ==
    IF IsSuccessDetails(j)
    THEN [Success |-> [id |-> j.obj.id.str,
                       Modified_Time |-> j.obj.Modified_Time.str,
                       Modified_By |-> [name |-> j.obj.Modified_By.obj.name.str, id |-> j.obj.Modified_By.obj.id.str],
                       Created_Time |-> j.obj.Created_Time.str,
                       Created_By |-> [name |-> j.obj.Created_By.obj.name.str, id |-> j.obj.Created_By.obj.id.str]]]
    ELSE [Error |-> j.obj]

\* response::ResponseDataItem { code, message, status: String, details }
IsResponseDataItem(j) ==
    /\ IsObj(j)
    /\ ReqStr(j, "code") /\ ReqStr(j, "message") /\ ReqStr(j, "status")
    /\ Has(j, "details") /\ IsObj(j.obj.details)
ToResponseDataItem(j) ==
    [code |-> j.obj.code.str, message |-> j.obj.message.str, status |-> j.obj.status.str,
     details |-> ToResponseDataItemDetails(j.obj.details)]

\* response::ApiSuccessResponse { data: Vec<ResponseDataItem> }
from_str_ApiSuccessResponse(raw) ==
    LET j == Json(raw)
    IN  IF ~IsObj(j) THEN Err(NotAnObject(j))
        ELSE IF ~(Has(j, "data") /\ IsArr(j.obj.data)) THEN Err("missing field data")
        ELSE IF \E i \in 1..Len(j.obj.data.arr) : ~IsResponseDataItem(j.obj.data.arr[i])
             THEN Err("missing field code")
        ELSE Ok([data |-> [i \in 1..Len(j.obj.data.arr) |-> ToResponseDataItem(j.obj.data.arr[i])]])

(***************************************************************************)
(* struct Client and its builder.                                          *)
(***************************************************************************)
\* mutant: api_domain is given the plain #[builder(default)], which is None
Build_api_domain_plain_default(id, secret, refresh, access_token, oauth_domain, api_domain, sandbox, timeout) ==
    [client_id |-> id,
     client_secret |-> secret,
     refresh_token |-> refresh,
     access_token |-> IF is_some(access_token) THEN unwrap(access_token) ELSE None,
     oauth_domain |-> IF is_some(oauth_domain) THEN unwrap(oauth_domain)
                      ELSE Some(DEFAULT_OAUTH_DOMAIN),
     api_domain |-> IF is_some(api_domain) THEN unwrap(api_domain) ELSE None,
     sandbox |-> IF is_some(sandbox) THEN unwrap(sandbox) ELSE FALSE,
     timeout |-> IF is_some(timeout) THEN unwrap(timeout) ELSE DEFAULT_TIMEOUT]

\* Client::builder()...build(): a setter argument is None when the setter is
\* not called (the field takes its default) and Some(v) when it is
Build(id, secret, refresh, access_token, oauth_domain, api_domain, sandbox, timeout) ==
    [client_id |-> id,
     client_secret |-> secret,
     refresh_token |-> refresh,
     access_token |-> IF is_some(access_token) THEN unwrap(access_token) ELSE None,
     oauth_domain |-> IF is_some(oauth_domain) THEN unwrap(oauth_domain)
                      ELSE Some(DEFAULT_OAUTH_DOMAIN),
     api_domain |-> IF is_some(api_domain) THEN unwrap(api_domain)
                    ELSE Some(DEFAULT_API_DOMAIN),
     sandbox |-> IF is_some(sandbox) THEN unwrap(sandbox) ELSE FALSE,
     timeout |-> IF is_some(timeout) THEN unwrap(timeout) ELSE DEFAULT_TIMEOUT]

\* the builder as it is when build() is called: each optional field is None
\* while its setter has not been called and Some(v) once it was called with v
Builder(id, secret, refresh, access_token, oauth_domain, api_domain, sandbox, timeout) ==
    [client_id |-> id, client_secret |-> secret, refresh_token |-> refresh,
     access_token |-> access_token, oauth_domain |-> oauth_domain,
     api_domain |-> api_domain, sandbox |-> sandbox, timeout |-> timeout]

\* Client::sandbox
sandbox(self) == self.sandbox
\* Client::timeout
timeout(self) == self.timeout
\* Client::access_token
access_token(self) == self.access_token
\* mutant: the sandbox URL is only a fallback for an absent stored domain
api_domain_stored_first(self) ==
    IF is_some(self.api_domain) THEN self.api_domain
    ELSE IF sandbox(self) THEN Some(SANDBOX_API_DOMAIN) ELSE None

\* Client::api_domain
api_domain(self) ==
    IF sandbox(self) THEN Some(SANDBOX_API_DOMAIN) ELSE self.api_domain

\* a String as Rust slices it; the tokens of the model are ASCII, so a byte
\* index is a character index.  &s[0..n] panics when s is shorter than n
SliceInRange(s, n) == Len(s) >= n
SliceTo(s, n) == SubSeq(s, 1, n)
\* s.chars().rev().collect::<String>()
RECURSIVE chars_rev(_)
chars_rev(s) == IF Len(s) = 0 THEN "" ELSE chars_rev(SubSeq(s, 2, Len(s))) \o SubSeq(s, 1, 1)
SliceOutOfRange(n, s) == Panic("byte index out of range of the string")

\* Client::abbreviated_access_token
abbreviated_access_token(self) ==
    IF is_none(self.access_token) THEN None
    ELSE IF ~SliceInRange(unwrap(self.access_token), 9)
    THEN SliceOutOfRange(9, unwrap(self.access_token))
    ELSE IF ~SliceInRange(chars_rev(unwrap(self.access_token)), 4)
    THEN SliceOutOfRange(4, chars_rev(unwrap(self.access_token)))
    ELSE Some(SliceTo(unwrap(self.access_token), 9) \o ".."
                \o chars_rev(SliceTo(chars_rev(unwrap(self.access_token)), 4)))

(***************************************************************************)
(* The transport.  A request is what reqwest is asked to send; its outcome *)
(* is an error of send() or text(), or the raw body.                       *)
(***************************************************************************)
Request(method, url, authorization, req_timeout, body) ==
    [method |-> method, url |-> url, authorization |-> authorization,
     timeout |-> req_timeout, body |-> body]
TransportError(msg) == [error |-> msg]
Body(raw) == [body |-> raw]
\* reqwest::blocking::Client::builder().build() failed
BuilderError(msg) == [builder_error |-> msg]
is_transport_error(net) == "error" \in DOMAIN net
is_builder_error(net) == "builder_error" \in DOMAIN net
Exchange(req, net) == [request |-> req, response |-> net]
\* the outcome of a call: the session after it, what it returns, and the
\* requests it issued, in order, each with its outcome
Outcome(self, ret, http) == [client |-> self, ret |-> ret, http |-> http]

TokenUrl(self) ==
    unwrap(self.oauth_domain)
        \o "/oauth/v2/token?grant_type=refresh_token&client_id=" \o self.client_id
        \o "&client_secret=" \o self.client_secret
        \o "&refresh_token=" \o self.refresh_token
IsTokenRequest(req) == req.method = "POST" /\ is_none(req.authorization)
IsCrmRequest(req) == is_some(req.authorization)

(***************************************************************************)
(* Client::get_new_token                                                   *)
(***************************************************************************)
\* the part of a call that decides the session and the returned value
Returned(self, ret) == [client |-> self, ret |-> ret]

\* mutant: the final guard is dropped
store_token_record_unguarded(self, api_response) ==
    Returned([self EXCEPT !.access_token = api_response.access_token,
                          !.api_domain = api_response.api_domain],
             Ok(api_response))
\* mutant: the final guard looks at the token held before the record is stored
store_token_record_guard_first(self, api_response) ==
    LET self2 == [self EXCEPT !.access_token = api_response.access_token,
                              !.api_domain = api_response.api_domain]
    IN  IF is_some(self.access_token)
        THEN Returned(self2, Ok(api_response))
        ELSE Returned(self2, Err(ClientErrorFromStr("No token received")))
\* mutant: an api_domain already stored is kept
store_token_record_keeps_domain(self, api_response) ==
    LET self2 == [self EXCEPT !.access_token = api_response.access_token,
                              !.api_domain = IF is_some(self.api_domain) THEN self.api_domain
                                             ELSE api_response.api_domain]
    IN  IF is_some(self2.access_token)
        THEN Returned(self2, Ok(api_response))
        ELSE Returned(self2, Err(ClientErrorFromStr("No token received")))

\* mutant: the record is stored only once the final guard has passed
store_token_record_after_guard(self, api_response) ==
    IF is_some(api_response.access_token)
    THEN Returned([self EXCEPT !.access_token = api_response.access_token,
                               !.api_domain = api_response.api_domain],
                  Ok(api_response))
    ELSE Returned(self, Err(ClientErrorFromStr("No token received")))

\* mutant: the domain of the record is also taken as the OAuth domain
store_token_record_moves_oauth_domain(self, api_response) ==
    LET self2 == [self EXCEPT !.access_token = api_response.access_token,
                              !.api_domain = api_response.api_domain,
                              !.oauth_domain = api_response.api_domain]
    IN  IF is_some(self2.access_token)
        THEN Returned(self2, Ok(api_response))
        ELSE Returned(self2, Err(ClientErrorFromStr("No token received")))

\* lines 155-161: the record is stored, then the final guard
store_token_record(self, api_response) ==
    LET self2 == [self EXCEPT !.access_token = api_response.access_token,
                              !.api_domain = api_response.api_domain]
    IN  IF is_some(self2.access_token)
        THEN Returned(self2, Ok(api_response))
        ELSE Returned(self2, Err(ClientErrorFromStr("No token received")))

\* mutant: the TokenRecord is read first, the error envelope only if that fails
read_token_response_record_first(self, raw_response) ==
    LET auth_error == from_str_AuthErrorResponse(raw_response)
        api_response == from_str_TokenRecord(raw_response)
    IN  IF is_ok(api_response) THEN store_token_record(self, api_response.ok)
        ELSE IF is_ok(auth_error) THEN Returned(self, Err(General(auth_error.ok.error)))
        ELSE Returned(self, Err(ClientErrorFromSerde(api_response.err)))

\* mutant: a body that cannot be read invalidates the token held
read_token_response_drops_token(self, raw_response) ==
    LET auth_error == from_str_AuthErrorResponse(raw_response)
        api_response == from_str_TokenRecord(raw_response)
    IN  IF is_ok(auth_error) THEN Returned(self, Err(General(auth_error.ok.error)))
        ELSE IF is_err(api_response)
        THEN Returned([self EXCEPT !.access_token = None],
                      Err(ClientErrorFromSerde(api_response.err)))
        ELSE store_token_record(self, api_response.ok)

\* lines 148-161: the raw body is tried as an AuthErrorResponse, then read
\* as a TokenRecord
read_token_response(self, raw_response) ==
    LET auth_error == from_str_AuthErrorResponse(raw_response)
        api_response == from_str_TokenRecord(raw_response)
    IN  IF is_ok(auth_error) THEN Returned(self, Err(General(auth_error.ok.error)))
        ELSE IF is_err(api_response)
        THEN Returned(self, Err(ClientErrorFromSerde(api_response.err)))
        ELSE store_token_record(self, api_response.ok)

\* mutant: a session with an empty identity field is refused before the request
get_new_token_requires_identity(self, net) ==
    IF self.client_id = "" \/ self.client_secret = "" \/ self.refresh_token = ""
    THEN Outcome(self, Err(ClientErrorFromStr("missing credentials")), <<>>)
    ELSE IF is_none(self.oauth_domain)
    THEN Outcome(self, Panic("called Option::unwrap() on a None value"), <<>>)
    ELSE
    LET req == Request("POST", TokenUrl(self), None, None, None)
        http == <<Exchange(req, net)>>
    IN  IF is_transport_error(net)
        THEN Outcome(self, Err(ClientErrorFromReqwest(net.error)), http)
        ELSE
        LET r == read_token_response(self, net.body)
        IN  Outcome(r.client, r.ret, http)

get_new_token(self, net) ==
    IF is_none(self.oauth_domain)
    THEN Outcome(self, Panic("called Option::unwrap() on a None value"), <<>>)
    ELSE
    LET req == Request("POST", TokenUrl(self), None, None, None)
        http == <<Exchange(req, net)>>
    IN  IF is_transport_error(net)
        THEN Outcome(self, Err(ClientErrorFromReqwest(net.error)), http)
        ELSE
        LET r == read_token_response(self, net.body)
        IN  Outcome(r.client, r.ret, http)

(***************************************************************************)
(* The four CRM operations.  rnet is the outcome the transport gives the   *)
(* refresh request, should one be sent, and net the outcome it gives the   *)
(* CRM request.                                                            *)
(***************************************************************************)
NoRefresh(self) == Outcome(self, Ok("token present"), <<>>)
UnwrapNone == Panic("called Option::unwrap() on a None value")
AuthorizationHeader(token) == "Zoho-oauthtoken " \o token
\* insert and update_many send the records under a data field
DataJson(data) == [data |-> data]

\* mutant: the token is refreshed on every call
ensure_token_always(self, rnet) == get_new_token(self, rnet)

\* the token-ensure step that opens each of the four operations:
\* if self.access_token.is_none() { self.get_new_token()?; }
ensure_token(self, rnet) ==
    IF is_none(self.access_token) THEN get_new_token(self, rnet) ELSE NoRefresh(self)

\* mutant: the success shape is tried before the error shape
get_response_success_first(raw_response) ==
    LET error == from_str_ApiErrorResponse(raw_response)
        data == from_str_ApiGetResponse(raw_response)
    IN  IF is_ok(data) THEN Ok(data.ok)
        ELSE IF is_ok(error) THEN Err(ApiError(error.ok))
        ELSE IF raw_response # "" THEN Err(UnexpectedResponseType(raw_response))
        ELSE Err(EmptyResponse)

\* the classification of the raw body that closes Client::get
get_response(raw_response) ==
    LET error == from_str_ApiErrorResponse(raw_response)
        data == from_str_ApiGetResponse(raw_response)
    IN  IF is_ok(error) THEN Err(ApiError(error.ok))
        ELSE IF is_ok(data) THEN Ok(data.ok)
        ELSE IF raw_response # "" THEN Err(UnexpectedResponseType(raw_response))
        ELSE Err(EmptyResponse)

\* mutant: every unmatched body is reported as an empty response
get_many_response_unmatched_is_empty(raw_response) ==
    LET error == from_str_ApiErrorResponse(raw_response)
        data == from_str_ApiGetManyResponse(raw_response)
    IN  IF is_ok(error) THEN Err(ApiError(error.ok))
        ELSE IF is_ok(data) THEN Ok(data.ok)
        ELSE Err(EmptyResponse)

\* the classification of the raw body that closes Client::get_many
get_many_response(raw_response) ==
    LET error == from_str_ApiErrorResponse(raw_response)
        data == from_str_ApiGetManyResponse(raw_response)
    IN  IF is_ok(error) THEN Err(ApiError(error.ok))
        ELSE IF is_ok(data) THEN Ok(data.ok)
        ELSE IF raw_response # "" THEN Err(UnexpectedResponseType(raw_response))
        ELSE Err(EmptyResponse)

\* mutant: an unmatched body is a General error carrying the raw text
insert_response_general(raw_response) ==
    LET error == from_str_ApiErrorResponse(raw_response)
        response == from_str_ApiSuccessResponse(raw_response)
    IN  IF is_ok(error) THEN Err(ApiError(error.ok))
        ELSE IF is_ok(response) THEN Ok(response.ok)
        ELSE Err(General(raw_response))

\* the classification of the raw body that closes Client::insert
insert_response(raw_response) ==
    LET error == from_str_ApiErrorResponse(raw_response)
        response == from_str_ApiSuccessResponse(raw_response)
    IN  IF is_ok(error) THEN Err(ApiError(error.ok))
        ELSE IF is_ok(response) THEN Ok(response.ok)
        ELSE IF raw_response # "" THEN Err(UnexpectedResponseType(raw_response))
        ELSE Err(EmptyResponse)

\* mutant: a response none of whose entries succeeded is an error
update_many_response_escalating(raw_response) ==
    LET error == from_str_ApiErrorResponse(raw_response)
        response == from_str_ApiSuccessResponse(raw_response)
    IN  IF is_ok(error) THEN Err(ApiError(error.ok))
        ELSE IF is_ok(response)
        THEN IF \E i \in DOMAIN response.ok.data : response.ok.data[i].status = "success"
             THEN Ok(response.ok)
             ELSE Err(General("no record succeeded"))
        ELSE IF raw_response # "" THEN Err(UnexpectedResponseType(raw_response))
        ELSE Err(EmptyResponse)

\* the classification of the raw body that closes Client::update_many
update_many_response(raw_response) ==
    LET error == from_str_ApiErrorResponse(raw_response)
        response == from_str_ApiSuccessResponse(raw_response)
    IN  IF is_ok(error) THEN Err(ApiError(error.ok))
        ELSE IF is_ok(response) THEN Ok(response.ok)
        ELSE IF raw_response # "" THEN Err(UnexpectedResponseType(raw_response))
        ELSE Err(EmptyResponse)

\* mutant: a token the CRM endpoint turns down is dropped from the session
get_request_forgets_token(r, module, id, net) ==
    IF is_none(r.client.access_token) THEN Outcome(r.client, UnwrapNone, r.http)
    ELSE IF is_builder_error(net)
    THEN Outcome(r.client, Err(ClientErrorFromReqwest(net.builder_error)), r.http)
    ELSE IF is_none(api_domain(r.client)) THEN Outcome(r.client, UnwrapNone, r.http)
    ELSE
    LET token == unwrap(r.client.access_token)
        url == unwrap(api_domain(r.client)) \o "/crm/v2/" \o module \o "/" \o id
        req == Request("GET", url, Some(AuthorizationHeader(token)), Some(r.client.timeout), None)
        http2 == Append(r.http, Exchange(req, net))
    IN  IF is_transport_error(net)
        THEN Outcome(r.client, Err(ClientErrorFromReqwest(net.error)), http2)
        ELSE IF net.body = API_ERROR_TOKEN
        THEN Outcome([r.client EXCEPT !.access_token = None], get_response(net.body), http2)
        ELSE Outcome(r.client, get_response(net.body), http2)

\* Client::get, from the token unwrap on: r is what the token-ensure step
\* left (the session, and the refresh request if one was sent)
get_request(r, module, id, net) ==
    IF is_none(r.client.access_token) THEN Outcome(r.client, UnwrapNone, r.http)
    ELSE IF is_builder_error(net)
    THEN Outcome(r.client, Err(ClientErrorFromReqwest(net.builder_error)), r.http)
    ELSE IF is_none(api_domain(r.client)) THEN Outcome(r.client, UnwrapNone, r.http)
    ELSE
    LET token == unwrap(r.client.access_token)
        url == unwrap(api_domain(r.client)) \o "/crm/v2/" \o module \o "/" \o id
        req == Request("GET", url, Some(AuthorizationHeader(token)), Some(r.client.timeout), None)
        http2 == Append(r.http, Exchange(req, net))
    IN  IF is_transport_error(net)
        THEN Outcome(r.client, Err(ClientErrorFromReqwest(net.error)), http2)
        ELSE Outcome(r.client, get_response(net.body), http2)

\* the `?` of the token-ensure step: an Err (or a panic) of get_new_token
\* ends the operation
get_after_token(r, module, id, net) ==
    IF ~is_ok(r.ret) THEN r ELSE get_request(r, module, id, net)

\* Client::get
get(self, module, id, rnet, net) ==
    get_after_token(ensure_token(self, rnet), module, id, net)

\* Client::get_many, from the token unwrap on
get_many_request(r, module, params, net) ==
    IF is_none(access_token(r.client)) THEN Outcome(r.client, UnwrapNone, r.http)
    ELSE IF is_none(api_domain(r.client)) THEN Outcome(r.client, UnwrapNone, r.http)
    ELSE IF is_builder_error(net)
    THEN Outcome(r.client, Err(ClientErrorFromReqwest(net.builder_error)), r.http)
    ELSE
    LET token == unwrap(access_token(r.client))
        base == unwrap(api_domain(r.client)) \o "/crm/v2/" \o module
        url == IF is_some(params) THEN base \o "?" \o unwrap(params) ELSE base
        req == Request("GET", url, Some(AuthorizationHeader(token)), Some(r.client.timeout), None)
        http2 == Append(r.http, Exchange(req, net))
    IN  IF is_transport_error(net)
        THEN Outcome(r.client, Err(ClientErrorFromReqwest(net.error)), http2)
        ELSE Outcome(r.client, get_many_response(net.body), http2)

\* mutant: the error of the refresh is wrapped in an error of the operation
get_many_after_token_wrapping(r, module, params, net) ==
    IF is_err(r.ret)
    THEN Outcome(r.client, Err(General("could not refresh the access token")), r.http)
    ELSE IF ~is_ok(r.ret) THEN r
    ELSE get_many_request(r, module, params, net)

get_many_after_token(r, module, params, net) ==
    IF ~is_ok(r.ret) THEN r ELSE get_many_request(r, module, params, net)

\* Client::get_many
get_many(self, module, params, rnet, net) ==
    get_many_after_token(ensure_token(self, rnet), module, params, net)

\* mutant: a token that met a transport error is dropped from the session
insert_request_drops_token(r, module, data, net) ==
    IF is_none(access_token(r.client)) THEN Outcome(r.client, UnwrapNone, r.http)
    ELSE IF is_none(api_domain(r.client)) THEN Outcome(r.client, UnwrapNone, r.http)
    ELSE IF is_builder_error(net)
    THEN Outcome(r.client, Err(ClientErrorFromReqwest(net.builder_error)), r.http)
    ELSE
    LET token == unwrap(access_token(r.client))
        url == unwrap(api_domain(r.client)) \o "/crm/v2/" \o module
        req == Request("POST", url, Some(AuthorizationHeader(token)), Some(r.client.timeout),
                       Some(DataJson(data)))
        http2 == Append(r.http, Exchange(req, net))
    IN  IF is_transport_error(net)
        THEN Outcome([r.client EXCEPT !.access_token = None],
                     Err(ClientErrorFromReqwest(net.error)), http2)
        ELSE Outcome(r.client, insert_response(net.body), http2)

\* Client::insert, from the token unwrap on
insert_request(r, module, data, net) ==
    IF is_none(access_token(r.client)) THEN Outcome(r.client, UnwrapNone, r.http)
    ELSE IF is_none(api_domain(r.client)) THEN Outcome(r.client, UnwrapNone, r.http)
    ELSE IF is_builder_error(net)
    THEN Outcome(r.client, Err(ClientErrorFromReqwest(net.builder_error)), r.http)
    ELSE
    LET token == unwrap(access_token(r.client))
        url == unwrap(api_domain(r.client)) \o "/crm/v2/" \o module
        req == Request("POST", url, Some(AuthorizationHeader(token)), Some(r.client.timeout),
                       Some(DataJson(data)))
        http2 == Append(r.http, Exchange(req, net))
    IN  IF is_transport_error(net)
        THEN Outcome(r.client, Err(ClientErrorFromReqwest(net.error)), http2)
        ELSE Outcome(r.client, insert_response(net.body), http2)

insert_after_token(r, module, data, net) ==
    IF ~is_ok(r.ret) THEN r ELSE insert_request(r, module, data, net)

\* Client::insert
insert(self, module, data, rnet, net) ==
    insert_after_token(ensure_token(self, rnet), module, data, net)

\* Client::update_many, from the token unwrap on
update_many_request(r, module, data, net) ==
    IF is_none(access_token(r.client)) THEN Outcome(r.client, UnwrapNone, r.http)
    ELSE IF is_none(api_domain(r.client)) THEN Outcome(r.client, UnwrapNone, r.http)
    ELSE IF is_builder_error(net)
    THEN Outcome(r.client, Err(ClientErrorFromReqwest(net.builder_error)), r.http)
    ELSE
    LET token == unwrap(access_token(r.client))
        url == unwrap(api_domain(r.client)) \o "/crm/v2/" \o module
        req == Request("PUT", url, Some(AuthorizationHeader(token)), Some(r.client.timeout),
                       Some(DataJson(data)))
        http2 == Append(r.http, Exchange(req, net))
    IN  IF is_transport_error(net)
        THEN Outcome(r.client, Err(ClientErrorFromReqwest(net.error)), http2)
        ELSE Outcome(r.client, update_many_response(net.body), http2)

update_many_after_token(r, module, data, net) ==
    IF ~is_ok(r.ret) THEN r ELSE update_many_request(r, module, data, net)

\* mutant: the api domain is read before the token-ensure step
update_many_request_to(r, domain, module, data, net) ==
    IF is_none(access_token(r.client)) THEN Outcome(r.client, UnwrapNone, r.http)
    ELSE IF is_none(domain) THEN Outcome(r.client, UnwrapNone, r.http)
    ELSE IF is_builder_error(net)
    THEN Outcome(r.client, Err(ClientErrorFromReqwest(net.builder_error)), r.http)
    ELSE
    LET token == unwrap(access_token(r.client))
        url == unwrap(domain) \o "/crm/v2/" \o module
        req == Request("PUT", url, Some(AuthorizationHeader(token)), Some(r.client.timeout),
                       Some(DataJson(data)))
        http2 == Append(r.http, Exchange(req, net))
    IN  IF is_transport_error(net)
        THEN Outcome(r.client, Err(ClientErrorFromReqwest(net.error)), http2)
        ELSE Outcome(r.client, update_many_response(net.body), http2)
update_many_after_token_to(r, domain, module, data, net) ==
    IF ~is_ok(r.ret) THEN r ELSE update_many_request_to(r, domain, module, data, net)
update_many_early_domain(self, module, data, rnet, net) ==
    update_many_after_token_to(ensure_token(self, rnet), api_domain(self), module, data, net)

\* Client::update_many
update_many(self, module, data, rnet, net) ==
    update_many_after_token(ensure_token(self, rnet), module, data, net)

(***************************************************************************)
(* The state machine: one application holding one Client and calling its   *)
(* operations one after the other.                                         *)
(***************************************************************************)
VARIABLES
    client,   \* the Client
    op,       \* the operation that has just returned ("build" after
              \* construction, "idle" once the caller is done with the result)
    before,   \* the Client as it was when that operation was called (after
              \* construction: the builder build() was called on)
    ret,      \* what that operation returned: Ok, Err or a panic
    http,     \* the requests that operation issued, in order, with outcomes
    refreshed \* the token in the Client was stored by a successful refresh, and
              \* no call of get_new_token by the application has followed it
vars == <<client, op, before, ret, http, refreshed>>

\* inputs of the builder
Identities == { <<"id", "secret", "refresh_token">>, <<"", "", "">> }
AccessTokenArgs ==
    { None, Some(None), Some(Some("access_token")), Some(Some("12345678901234567890")),
      Some(Some("123456789")) }
OauthDomainArgs == { None, Some(None), Some(Some("http://127.0.0.1:1234")) }
ApiDomainArgs == { None, Some(None), Some(Some("https://test.com")) }
SandboxArgs == { None, Some(TRUE), Some(FALSE) }
TimeoutArgs == { None, Some(5) }

\* inputs of the operations
Modules == { "Accounts", "INVALID_MODULE" }
RecordIds == { "40000000123456789" }
ParamsArgs == { None, Some("page=2") }
DataArgs == { <<[name |-> "New Record Name"]>> }

\* outcomes of the transport
RefreshNets ==
    { TransportError("error sending request"), TransportError("error decoding response body") }
        \cup { Body(raw) : raw \in RefreshBodies }
CrmNets ==
    { BuilderError("builder error"), TransportError("operation timed out"),
      TransportError("error decoding response body") }
        \cup { Body(raw) : raw \in CrmBodies }

Init ==
    /\ \E ident \in Identities, at \in AccessTokenArgs, od \in OauthDomainArgs,
          ad \in ApiDomainArgs, sb \in SandboxArgs, to \in TimeoutArgs :
          /\ client = Build(ident[1], ident[2], ident[3], at, od, ad, sb, to)
          /\ before = Builder(ident[1], ident[2], ident[3], at, od, ad, sb, to)
    /\ op = "build"
    /\ ret = Ok("built")
    /\ http = <<>>
    /\ refreshed = FALSE

\* the application calls an operation once it is done with the previous
\* result; a panic ends the program
Idle == op \in {"build", "idle"}

\* call o sent a refresh request and the refresh stored a token: for the
\* call of get_new_token it returned Ok, for a CRM operation (which
\* refreshes only when it holds no token) a token is held afterwards
StoredToken(name, o) ==
    /\ \E i \in DOMAIN o.http : IsTokenRequest(o.http[i].request)
    /\ IF name = "get_new_token" THEN is_ok(o.ret) ELSE is_some(o.client.access_token)

Return(name, o) ==
    /\ client' = o.client
    /\ op' = name
    /\ before' = client
    /\ ret' = o.ret
    /\ http' = o.http
    /\ refreshed' = IF name = "get_new_token" THEN StoredToken(name, o)
                    ELSE (refreshed \/ StoredToken(name, o))

GetNewToken ==
    /\ Idle
    /\ \E net \in RefreshNets : Return("get_new_token", get_new_token(client, net))

Get ==
    /\ Idle
    /\ \E module \in Modules, id \in RecordIds, rnet \in RefreshNets, net \in CrmNets :
          Return("get", get(client, module, id, rnet, net))

GetMany ==
    /\ Idle
    /\ \E module \in Modules, params \in ParamsArgs, rnet \in RefreshNets, net \in CrmNets :
          Return("get_many", get_many(client, module, params, rnet, net))

Insert ==
    /\ Idle
    /\ \E module \in Modules, data \in DataArgs, rnet \in RefreshNets, net \in CrmNets :
          Return("insert", insert(client, module, data, rnet, net))

UpdateMany ==
    /\ Idle
    /\ \E module \in Modules, data \in DataArgs, rnet \in RefreshNets, net \in CrmNets :
          Return("update_many", update_many(client, module, data, rnet, net))

\* the accessors take &self: the session is left alone and nothing is sent
Accessor(name, value) ==
    /\ Idle
    /\ op' = name
    /\ before' = client
    /\ ret' = value
    /\ http' = <<>>
    /\ UNCHANGED <<client, refreshed>>
\* a returned value that is neither an Option nor a Result
Value(v) == [value |-> v]

Sandbox == Accessor("sandbox", Value(sandbox(client)))
Timeout == Accessor("timeout", Value(timeout(client)))
AccessToken == Accessor("access_token", access_token(client))
ApiDomain == Accessor("api_domain", api_domain(client))
AbbreviatedAccessToken ==
    Accessor("abbreviated_access_token", abbreviated_access_token(client))

\* the caller has matched on the returned value and drops it
Done ==
    /\ ~Idle
    /\ ~is_panic(ret)
    /\ op' = "idle"
    /\ before' = client
    /\ ret' = Ok("idle")
    /\ http' = <<>>
    /\ UNCHANGED <<client, refreshed>>

Next ==
    \/ GetNewToken \/ Get \/ GetMany \/ Insert \/ UpdateMany
    \/ Sandbox \/ Timeout \/ AccessToken \/ ApiDomain \/ AbbreviatedAccessToken
    \/ Done

Spec == Init /\ [][Next]_vars

(***************************************************************************)
(* What a state shows of the call that has just returned.                  *)
(***************************************************************************)
CrmOps == { "get", "get_many", "insert", "update_many" }
Operations == CrmOps \cup { "get_new_token" }
TokenRequestCount == Cardinality({ i \in DOMAIN http : IsTokenRequest(http[i].request) })
CrmRequestCount == Cardinality({ i \in DOMAIN http : IsCrmRequest(http[i].request) })
\* the call was a CRM operation made with no access token in the session
LazyCall == op \in CrmOps /\ is_none(before.access_token)
\* the call was a CRM operation made with an access token in the session
PresetCall == op \in CrmOps /\ is_some(before.access_token)
\* the call sent its CRM request and got a body back
CrmResponded ==
    /\ op \in CrmOps
    /\ Len(http) > 0
    /\ IsCrmRequest(http[Len(http)].request)
    /\ "body" \in DOMAIN http[Len(http)].response
CrmBody == http[Len(http)].response.body
\* the call sent a refresh request and got a body back
RefreshResponded ==
    /\ op \in Operations
    /\ Len(http) > 0
    /\ IsTokenRequest(http[1].request)
    /\ "body" \in DOMAIN http[1].response
RefreshBody == http[1].response.body
\* the success shape of each CRM operation
SuccessShape(name, raw) ==
    CASE name = "get" -> from_str_ApiGetResponse(raw)
      [] name = "get_many" -> from_str_ApiGetManyResponse(raw)
      [] OTHER -> from_str_ApiSuccessResponse(raw)
StartsWith(str, prefix) ==
    Len(str) >= Len(prefix) /\ SubSeq(str, 1, Len(prefix)) = prefix

(***************************************************************************)
(* C1.  A CRM operation called while the session holds no access token     *)
(* issues exactly one token-refresh request, and issues it first, before   *)
(* the CRM request.  Violated: with oauth_domain None the lazy refresh     *)
(* panics on unwrap before any request is issued.                          *)
(***************************************************************************)
C1_LazyCallRefreshesOnceFirst ==
    LazyCall =>
        /\ TokenRequestCount = 1
        /\ IsTokenRequest(http[1].request)
        /\ \A i \in 2..Len(http) : IsCrmRequest(http[i].request)

(***************************************************************************)
(* C2.  A CRM operation called while the session holds an access token     *)
(* issues no token-refresh request, whatever the CRM request comes to.     *)
(***************************************************************************)
C2_PresetCallNeverRefreshes == PresetCall => TokenRequestCount = 0
C2_Witness ==
    /\ PresetCall
    /\ op = "update_many"
    /\ CrmResponded
    /\ ret = Err(ApiError(from_str_ApiErrorResponse(API_ERROR_TOKEN).ok))

(***************************************************************************)
(* C3.  Right after any operation returns Ok, the stored access_token is   *)
(* Some.                                                                   *)
(***************************************************************************)
C3_OkImpliesToken == (op \in Operations /\ is_ok(ret)) => is_some(client.access_token)
C3_Witness ==
    /\ op = "get_new_token"
    /\ is_ok(ret)
    /\ is_none(before.access_token)

(***************************************************************************)
(* C4.  In the four CRM operations a body that parses as the API error     *)
(* shape is returned as ApiError carrying the parsed structure, never as   *)
(* Ok, also when the body parses as the success shape of the operation.    *)
(***************************************************************************)
C4_ErrorShapeFirst ==
    (CrmResponded /\ is_ok(from_str_ApiErrorResponse(CrmBody)))
        => ret = Err(ApiError(from_str_ApiErrorResponse(CrmBody).ok))
C4_Witness ==
    /\ CrmResponded
    /\ op = "get"
    /\ is_ok(from_str_ApiErrorResponse(CrmBody))
    /\ is_ok(SuccessShape(op, CrmBody))
    /\ is_err(ret)

BulkCall == op \in { "insert", "update_many" } /\ CrmResponded
\* the entries of the Ok value are those of the body, field by field
EntriesAsSent ==
    LET sent == Json(CrmBody).obj.data.arr
    IN  /\ Len(ret.ok.data) = Len(sent)
        /\ \A i \in 1..Len(sent) :
              /\ ret.ok.data[i].code = sent[i].obj.code.str
              /\ ret.ok.data[i].message = sent[i].obj.message.str
              /\ ret.ok.data[i].status = sent[i].obj.status.str
              /\ sent[i].obj.status.str = "error"
                    => ret.ok.data[i].details = [Error |-> sent[i].obj.details.obj]
C6_Original_BulkAlwaysOk ==
    (BulkCall /\ is_ok(from_str_ApiSuccessResponse(CrmBody))) => is_ok(ret)

(***************************************************************************)
(* C6, amended.  insert and update_many return Ok whenever the body does   *)
(* not parse as the API error shape and parses as the bulk-result array,   *)
(* whatever the statuses of the entries; the entries, with the details of  *)
(* the failed ones, are delivered as sent.                                 *)
(***************************************************************************)
C6_BulkOkUnlessErrorShape ==
    (/\ BulkCall
     /\ is_err(from_str_ApiErrorResponse(CrmBody))
     /\ is_ok(from_str_ApiSuccessResponse(CrmBody)))
        => is_ok(ret) /\ EntriesAsSent
C6_Witness ==
    /\ BulkCall
    /\ op = "insert"
    /\ CrmBody = BULK_ERROR
    /\ is_ok(ret)
    /\ \A i \in DOMAIN ret.ok.data : ret.ok.data[i].status = "error"

(***************************************************************************)
(* C7.  When the body of the refresh response is a token response (an      *)
(* object of the fields of the token wire format) carrying an access_token *)
(* and an api_domain, get_new_token returns Ok with a TokenRecord holding  *)
(* the two values, and the stored access_token and api_domain are those    *)
(* values afterwards, whatever the session held before.                    *)
(***************************************************************************)
TokenFields == { "access_token", "api_domain", "token_type", "expires_in", "expires_in_sec" }
IsTokenResponse(raw) ==
    /\ IsObj(Json(raw))
    /\ DOMAIN Json(raw).obj \subseteq TokenFields
    /\ is_ok(from_str_TokenRecord(raw))
CarriesTokenAndDomain(raw) ==
    /\ IsTokenResponse(raw)
    /\ ReqStr(Json(raw), "access_token")
    /\ ReqStr(Json(raw), "api_domain")
C7_RefreshStoresTokenAndDomain ==
    (op = "get_new_token" /\ RefreshResponded /\ CarriesTokenAndDomain(RefreshBody))
        => /\ is_ok(ret)
           /\ ret.ok.access_token = Some(Json(RefreshBody).obj.access_token.str)
           /\ ret.ok.api_domain = Some(Json(RefreshBody).obj.api_domain.str)
           /\ client.access_token = Some(Json(RefreshBody).obj.access_token.str)
           /\ client.api_domain = Some(Json(RefreshBody).obj.api_domain.str)
C7_Witness ==
    /\ op = "get_new_token"
    /\ RefreshResponded
    /\ RefreshBody = TOKEN_FULL_2
    /\ before.access_token = Some("access_token")
    /\ before.api_domain = Some("https://test.com")
    /\ client.access_token = Some("TKN2")
    /\ client.api_domain = Some("https://Y")

(***************************************************************************)
(* C8.  When the body of the refresh response parses as the OAuth error    *)
(* envelope, the call fails with General carrying exactly the error        *)
(* string of the envelope, also when the body parses as a TokenRecord too, *)
(* and the session is left as it was: no token is stored.                  *)
(***************************************************************************)
C8_AuthErrorFirst ==
    (RefreshResponded /\ is_ok(from_str_AuthErrorResponse(RefreshBody)))
        => /\ ret = Err(General(from_str_AuthErrorResponse(RefreshBody).ok.error))
           /\ client = before
C8_Witness ==
    /\ op = "get_new_token"
    /\ RefreshResponded
    /\ RefreshBody = AUTH_ERROR_WITH_TOKEN
    /\ is_ok(from_str_TokenRecord(RefreshBody))
    /\ ret = Err(General("invalid_code"))
    /\ is_none(client.access_token)

(***************************************************************************)
(* C9.  The claim as stated: when the body of the refresh response parses  *)
(* as a TokenRecord whose access_token is absent, get_new_token fails with *)
(* General "No token received".  Violated by a body that parses as the     *)
(* OAuth error envelope too: the error of the envelope is returned.        *)
(***************************************************************************)
TokenRecordWithoutToken(raw) ==
    /\ is_ok(from_str_TokenRecord(raw))
    /\ is_none(from_str_TokenRecord(raw).ok.access_token)
C9_Original_NoTokenReceived ==
    (op = "get_new_token" /\ RefreshResponded /\ TokenRecordWithoutToken(RefreshBody))
        => ret = Err(General("No token received"))

(***************************************************************************)
(* C9, amended.  When the body of the refresh response parses as a         *)
(* TokenRecord whose access_token is absent, get_new_token never returns   *)
(* Ok; when the body does not parse as the OAuth error envelope either,    *)
(* the failure is General "No token received".                             *)
(***************************************************************************)
C9_NoTokenReceivedUnlessAuthError ==
    (op = "get_new_token" /\ RefreshResponded /\ TokenRecordWithoutToken(RefreshBody))
        => /\ is_err(ret)
           /\ is_err(from_str_AuthErrorResponse(RefreshBody))
                 => ret = Err(General("No token received"))
C9_Witness ==
    /\ op = "get_new_token"
    /\ RefreshResponded
    /\ RefreshBody = TOKEN_ABSENT
    /\ ret = Err(General("No token received"))

(***************************************************************************)
(* C10.  With sandbox true the effective api domain, as api_domain()       *)
(* returns it and as every CRM request URL is built from it, is the fixed  *)
(* sandbox URL whatever the stored api_domain is (absent, or overwritten   *)
(* by a refresh); with sandbox false it is the stored api_domain.          *)
(***************************************************************************)
C10_EffectiveApiDomain ==
    /\ client.sandbox => api_domain(client) = Some(SANDBOX_API_DOMAIN)
    /\ ~client.sandbox => api_domain(client) = client.api_domain
    /\ \A i \in DOMAIN http :
          IsCrmRequest(http[i].request) =>
              IF client.sandbox
              THEN StartsWith(http[i].request.url, SANDBOX_API_DOMAIN \o "/crm/v2/")
              ELSE /\ is_some(client.api_domain)
                   /\ StartsWith(http[i].request.url, unwrap(client.api_domain) \o "/crm/v2/")
C10_Witness ==
    /\ client.sandbox
    /\ op = "get_many"
    /\ Len(http) = 2
    /\ before.api_domain = None
    /\ client.api_domain = Some("https://X")
    /\ StartsWith(http[2].request.url, SANDBOX_API_DOMAIN)
    /\ is_ok(ret)

(***************************************************************************)
(* C11.  abbreviated_access_token returns None when the access token is    *)
(* absent and, for every present access token whatever its length, Some of *)
(* its first 9 characters, then "..", then its last 4 characters: a value  *)
(* of length 15.  Violated: on a token shorter than 9 bytes the slice      *)
(* [0..9] is out of range and the call panics.                             *)
(***************************************************************************)
Accessors == { "sandbox", "timeout", "access_token", "api_domain", "abbreviated_access_token" }
FirstChars(str, n) == SubSeq(str, 1, IF Len(str) < n THEN Len(str) ELSE n)
LastChars(str, n) == SubSeq(str, IF Len(str) < n THEN 1 ELSE Len(str) - n + 1, Len(str))
C11_AbbreviatedToken ==
    op = "abbreviated_access_token" =>
        /\ is_none(client.access_token) => ret = None
        /\ is_some(client.access_token) =>
              /\ ret = Some(FirstChars(unwrap(client.access_token), 9) \o ".."
                               \o LastChars(unwrap(client.access_token), 4))
              /\ Len(unwrap(ret)) = 15

(***************************************************************************)
(* C12.  A client built from the three identity fields alone has           *)
(* access_token absent, oauth_domain the fixed production OAuth URL,       *)
(* api_domain the fixed production API URL, sandbox false and timeout 30;  *)
(* every optional field set on the builder, also when set to None, is      *)
(* stored as given, and the identity fields are stored as given.           *)
(***************************************************************************)
OptionalFields == { "access_token", "oauth_domain", "api_domain", "sandbox", "timeout" }
BuilderDefaults ==
    [access_token |-> None,
     oauth_domain |-> Some("https://accounts.zoho.com"),
     api_domain |-> Some("https://www.zohoapis.com"),
     sandbox |-> FALSE,
     timeout |-> 30]
C12_BuilderDefaults ==
    op = "build" =>
        /\ client.client_id = before.client_id
        /\ client.client_secret = before.client_secret
        /\ client.refresh_token = before.refresh_token
        /\ \A f \in OptionalFields :
              IF is_some(before[f]) THEN client[f] = unwrap(before[f])
              ELSE client[f] = BuilderDefaults[f]
C12_Witness ==
    /\ op = "build"
    /\ before.client_id = "id"
    /\ \A f \in OptionalFields : is_none(before[f])
    /\ client = [client_id |-> "id", client_secret |-> "secret", refresh_token |-> "refresh_token",
                 access_token |-> None,
                 oauth_domain |-> Some("https://accounts.zoho.com"),
                 api_domain |-> Some("https://www.zohoapis.com"),
                 sandbox |-> FALSE, timeout |-> 30]

(***************************************************************************)
(* C15.  The claim as stated: construction validates the identity fields,  *)
(* so that no session is built with an empty client_id, client_secret or   *)
(* refresh_token.  Violated: the builder stores whatever it is given.      *)
(***************************************************************************)
EmptyIdentity(self) ==
    self.client_id = "" \/ self.client_secret = "" \/ self.refresh_token = ""
C13_StoredTokenIsReused ==
    [][(refreshed /\ op' \in CrmOps) => TokenRequestCount' = 0]_vars
C13_Witness ==
    /\ refreshed
    /\ op = "insert"
    /\ before.access_token = Some("TKN")
    /\ TokenRequestCount = 0
    /\ CrmRequestCount = 1
    /\ http[1].request.authorization = Some("Zoho-oauthtoken TKN")
    /\ ret = Err(ApiError(from_str_ApiErrorResponse(API_ERROR_TOKEN).ok))

(***************************************************************************)
(* C14.  When get receives a body that carries no API error code and is    *)
(* not a success payload either, it fails with ClientError::General        *)
(* carrying the raw text of the body.  Violated: the code returns          *)
(* UnexpectedResponseType with the raw text, or EmptyResponse.             *)
(***************************************************************************)
C14_GetUnmatchedIsGeneral ==
    (/\ op = "get"
     /\ CrmResponded
     /\ is_err(from_str_ApiErrorResponse(CrmBody))
     /\ is_err(from_str_ApiGetResponse(CrmBody)))
        => ret = Err(General(CrmBody))

(***************************************************************************)
(* C16.  The claim as stated: whenever the body of the refresh response    *)
(* parses as a TokenRecord, the stored access_token and api_domain are     *)
(* overwritten with the fields of the record.  Violated by a body that     *)
(* parses as the OAuth error envelope too: the call fails on the envelope  *)
(* before the record is read and the session is left as it was.            *)
(***************************************************************************)
TokenRecordOf(raw) == from_str_TokenRecord(raw).ok
C16_Original_RecordAlwaysStored ==
    (RefreshResponded /\ is_ok(from_str_TokenRecord(RefreshBody)))
        => /\ client.access_token = TokenRecordOf(RefreshBody).access_token
           /\ client.api_domain = TokenRecordOf(RefreshBody).api_domain

(***************************************************************************)
(* C16, amended.  Whenever the body of the refresh response does not parse *)
(* as the OAuth error envelope and parses as a TokenRecord, the stored     *)
(* access_token and api_domain are both overwritten with the fields of the *)
(* record before the final guard, an absent field resetting the stored one *)
(* to absent: after a "No token received" failure the stored access_token  *)
(* is absent even if a token was held before the call, and after a parse   *)
(* lacking api_domain the stored api_domain is absent.                     *)
(***************************************************************************)
C16_RecordStoredUnlessAuthError ==
    /\ (/\ RefreshResponded
        /\ is_err(from_str_AuthErrorResponse(RefreshBody))
        /\ is_ok(from_str_TokenRecord(RefreshBody)))
          => /\ client.access_token = TokenRecordOf(RefreshBody).access_token
             /\ client.api_domain = TokenRecordOf(RefreshBody).api_domain
             /\ (~Has(Json(RefreshBody), "access_token") \/ IsNull(Json(RefreshBody).obj.access_token))
                   => client.access_token = None
             /\ (~Has(Json(RefreshBody), "api_domain") \/ IsNull(Json(RefreshBody).obj.api_domain))
                   => client.api_domain = None
    /\ (op \in Operations /\ ret = Err(General("No token received")))
          => client.access_token = None
C16_Witness ==
    /\ op = "get_new_token"
    /\ RefreshResponded
    /\ RefreshBody = TOKEN_NULL
    /\ before.access_token = Some("access_token")
    /\ before.api_domain = Some("https://test.com")
    /\ ret = Err(General("No token received"))
    /\ client.access_token = None
    /\ client.api_domain = None

(***************************************************************************)
(* C17.  When a CRM operation starts with no access token and its lazy     *)
(* refresh fails (transport error, OAuth error envelope, unparseable body  *)
(* or no token received), the operation returns exactly the error of the   *)
(* refresh, sends no CRM request and does not send the refresh again.      *)
(***************************************************************************)
LazyRefreshSent == LazyCall /\ Len(http) >= 1 /\ IsTokenRequest(http[1].request)
RefreshTransportFailed == LazyRefreshSent /\ "error" \in DOMAIN http[1].response
RefreshAnswered == LazyRefreshSent /\ "body" \in DOMAIN http[1].response
OnlyTheRefreshWasSent == Len(http) = 1 /\ CrmRequestCount = 0 /\ TokenRequestCount = 1
C17_LazyRefreshFailurePropagates ==
    /\ RefreshTransportFailed =>
          /\ ret = Err(General(http[1].response.error))
          /\ OnlyTheRefreshWasSent
    /\ (RefreshAnswered /\ is_ok(from_str_AuthErrorResponse(RefreshBody))) =>
          /\ ret = Err(General(from_str_AuthErrorResponse(RefreshBody).ok.error))
          /\ OnlyTheRefreshWasSent
    /\ (/\ RefreshAnswered
        /\ is_err(from_str_AuthErrorResponse(RefreshBody))
        /\ is_err(from_str_TokenRecord(RefreshBody))) =>
          /\ ret = Err(General(from_str_TokenRecord(RefreshBody).err))
          /\ OnlyTheRefreshWasSent
    /\ (/\ RefreshAnswered
        /\ is_err(from_str_AuthErrorResponse(RefreshBody))
        /\ TokenRecordWithoutToken(RefreshBody)) =>
          /\ ret = Err(General("No token received"))
          /\ OnlyTheRefreshWasSent
C17_Witness ==
    /\ op = "get_many"
    /\ RefreshAnswered
    /\ RefreshBody = AUTH_ERROR
    /\ ret = Err(General("invalid_token"))
    /\ OnlyTheRefreshWasSent

(***************************************************************************)
(* C18.  No retry: every CRM operation issues at most one refresh request  *)
(* and at most one CRM request and then returns Success, ApiError,         *)
(* UnexpectedResponseType, EmptyResponse or a General error; no failure,   *)
(* an ApiError about the token included, triggers a further request.       *)
(* Violated: with oauth_domain or the effective api_domain absent the      *)
(* operation panics on unwrap and returns none of the five.                *)
(***************************************************************************)
ReturnsAnOutcome ==
    \/ is_ok(ret)
    \/ /\ is_err(ret)
       /\ \/ "ApiError" \in DOMAIN ret.err
          \/ "UnexpectedResponseType" \in DOMAIN ret.err
          \/ "EmptyResponse" \in DOMAIN ret.err
          \/ "General" \in DOMAIN ret.err
AtMostOneRequestOfEachKind == TokenRequestCount <= 1 /\ CrmRequestCount <= 1
C18_NoRetry ==
    op \in CrmOps => (AtMostOneRequestOfEachKind /\ ReturnsAnOutcome)

(***************************************************************************)
(* C19.  The refresh is the sole mutator of the stored access_token and    *)
(* api_domain: a get, get_many, insert or update_many call made while a    *)
(* token is present leaves both fields exactly as they were, whatever the  *)
(* CRM request comes to, and the accessors never change them.              *)
(***************************************************************************)
TokenAndDomainUntouched ==
    /\ client.access_token = before.access_token
    /\ client.api_domain = before.api_domain
C19_RefreshIsSoleMutator ==
    /\ PresetCall => TokenAndDomainUntouched
    /\ op \in Accessors => TokenAndDomainUntouched
C19_Witness ==
    /\ PresetCall
    /\ op = "insert"
    /\ CrmRequestCount = 1
    /\ "error" \in DOMAIN http[1].response
    /\ is_err(ret)
    /\ client.access_token = Some("access_token")
    /\ client.api_domain = Some("https://test.com")

(***************************************************************************)
(* C20.  Across any sequence of operations, successful or failed,          *)
(* client_id, client_secret, refresh_token, oauth_domain, sandbox and      *)
(* timeout keep the values they had at construction: no step changes any   *)
(* of them, so that only access_token and api_domain ever change.          *)
(***************************************************************************)
ConstructionFields ==
    { "client_id", "client_secret", "refresh_token", "oauth_domain", "sandbox", "timeout" }
C20_ConstructionFieldsKept ==
    [][\A f \in ConstructionFields : client'[f] = client[f]]_vars
C20_Witness ==
    /\ op = "get_new_token"
    /\ refreshed
    /\ client.access_token # before.access_token
    /\ client.api_domain # before.api_domain
    /\ \A f \in ConstructionFields : client[f] = before[f]
    /\ client.oauth_domain = Some("http://127.0.0.1:1234")
    /\ client.timeout = 5

(***************************************************************************)
(* C21.  The CRM request of an operation is built after the token-ensure   *)
(* step, from the session as it is then: it follows the refresh request if *)
(* one was sent, its Authorization header is "Zoho-oauthtoken " and the    *)
(* stored access token (after a lazy refresh, the token just received),    *)
(* its URL starts with the effective api domain as it is after the refresh *)
(* (outside the sandbox, the api_domain the refresh supplied), and its     *)
(* timeout is that of the session.                                         *)
(***************************************************************************)
EffectiveApiDomain(self) ==
    IF self.sandbox THEN Some("https://crmsandbox.zoho.com") ELSE self.api_domain
C21_RequestFromStateAfterRefresh ==
    \A i \in DOMAIN http :
        IsCrmRequest(http[i].request) =>
            /\ i = Len(http)
            /\ \A k \in 1..(i - 1) : IsTokenRequest(http[k].request)
            /\ is_some(client.access_token)
            /\ http[i].request.authorization
                  = Some("Zoho-oauthtoken " \o unwrap(client.access_token))
            /\ (LazyCall /\ RefreshResponded) =>
                  client.access_token = TokenRecordOf(RefreshBody).access_token
            /\ is_some(EffectiveApiDomain(client))
            /\ StartsWith(http[i].request.url, unwrap(EffectiveApiDomain(client)) \o "/crm/v2/")
            /\ (LazyCall /\ RefreshResponded /\ ~client.sandbox) =>
                  /\ is_some(TokenRecordOf(RefreshBody).api_domain)
                  /\ StartsWith(http[i].request.url,
                                unwrap(TokenRecordOf(RefreshBody).api_domain) \o "/crm/v2/")
            /\ http[i].request.timeout = Some(client.timeout)
C21_Witness ==
    /\ op = "update_many"
    /\ LazyCall
    /\ Len(http) = 2
    /\ RefreshBody = TOKEN_FULL_2
    /\ before.api_domain = Some("https://test.com")
    /\ ~client.sandbox
    /\ http[2].request.authorization = Some("Zoho-oauthtoken TKN2")
    /\ http[2].request.url = "https://Y/crm/v2/Accounts"
    /\ http[2].request.timeout = Some(5)

(***************************************************************************)
(* C22.  The classification of the response is the same in the four CRM    *)
(* operations: for each class of raw body (parses as the API error shape;  *)
(* parses as the success shape of the operation only; non-empty and parses *)
(* as neither; empty) get, get_many, insert and update_many return the     *)
(* kind of outcome (ApiError, Ok, UnexpectedResponseType, EmptyResponse)   *)
(* of one reference classifier that tries error, success, non-empty and    *)
(* empty in this order.                                                    *)
(***************************************************************************)
ReferenceClassifier(is_error, is_success, raw) ==
    IF is_error THEN "ApiError"
    ELSE IF is_success THEN "Ok"
    ELSE IF raw # "" THEN "UnexpectedResponseType"
    ELSE "EmptyResponse"
OutcomeKind(r) ==
    IF is_ok(r) THEN "Ok"
    ELSE IF is_panic(r) THEN "panic"
    ELSE IF "ApiError" \in DOMAIN r.err THEN "ApiError"
    ELSE IF "UnexpectedResponseType" \in DOMAIN r.err THEN "UnexpectedResponseType"
    ELSE IF "EmptyResponse" \in DOMAIN r.err THEN "EmptyResponse"
    ELSE "General"
ExplicitRefreshSent ==
    op = "get_new_token" /\ Len(http) = 1 /\ IsTokenRequest(http[1].request)
FailedBeforeTokenRecord ==
    /\ ExplicitRefreshSent
    /\ \/ "error" \in DOMAIN http[1].response
       \/ /\ "body" \in DOMAIN http[1].response
          /\ \/ is_ok(from_str_AuthErrorResponse(RefreshBody))
             \/ is_err(from_str_TokenRecord(RefreshBody))
C23_EarlyFailureKeepsSession ==
    FailedBeforeTokenRecord =>
        /\ is_err(ret)
        /\ client.access_token = before.access_token
        /\ client.api_domain = before.api_domain
C23_Witness ==
    /\ FailedBeforeTokenRecord
    /\ RefreshResponded
    /\ RefreshBody = TOKEN_BAD_TYPE
    /\ before.access_token = Some("access_token")
    /\ before.api_domain = Some("https://test.com")
    /\ is_err(ret)
    /\ client.access_token = Some("access_token")
    /\ client.api_domain = Some("https://test.com")

(***************************************************************************)
(* C24.  No operation aborts: in every session reachable from any builder  *)
(* configuration by any sequence of operations, get_new_token finds        *)
(* oauth_domain present and each CRM operation finds the access token and  *)
(* the effective api domain present, so that every call returns Ok or a    *)
(* ClientError.  Violated: the builder accepts oauth_domain(None) and      *)
(* api_domain(None), a refresh may store an absent api_domain, and the     *)
(* operations unwrap the absent value.                                     *)
(***************************************************************************)
C24_NoOperationAborts ==
    op \in Operations => (is_ok(ret) \/ is_err(ret))

====
